---- MODULE Spec2Model ----
(***************************************************************************)
(* Hybrid Identity backend (keystone_hybrid_backend/hybrid_identity.py):   *)
(* class Identity authenticates against the SQL backend first and the LDAP *)
(* backend second, and keeps the instance attribute domain_aware.          *)
(*                                                                         *)
(* Every caller of the one backend instance is a process with a program    *)
(* counter; authenticate and is_domain_aware are modelled statement group   *)
(* by statement group, so that calls of different callers can interleave.  *)
(* Spec is sequential use (a call starts only when no call is in flight)   *)
(* and records the last completed call; ConcSpec is concurrent use of the  *)
(* same instance and records what each caller read after it authenticated. *)
(***************************************************************************)
EXTENDS Integers, Sequences, FiniteSets, TLC

\* Number of callers that share the backend instance.
NumCallers == 2

Callers == 1..NumCallers

\* Python's None, as it appears in a password argument or a password column.
None == "None"

(***************************************************************************)
(* The two stores.  They are read-only for this backend.                   *)
(***************************************************************************)
Passwords == {None, "", "p1", "p2"}

Domains == {"default", "other"}

\* The password hash of the SQL backend: distinct passwords that reach the
\* check (the non-empty ones) have distinct hashes.
Hash(p) ==
  CASE p = "p1" -> "h_p1"
    [] p = "p2" -> "h_p2"
    [] OTHER -> "h_other"

\* Rows of the SQL user table, keyed by user id.  alice has a password hash;
\* bob has no password (NULL); carol's column is not a string; dave's row has
\* no password key at all; erin has a hash in SQL and another password in LDAP.
SqlUsers ==
  [u \in {"alice_id", "bob_id", "carol_id", "dave_id", "erin_id"} |->
    CASE u = "alice_id" ->
           [id |-> "alice_id", name |-> "alice", domain_id |-> "default",
            password |-> Hash("p1")]
      [] u = "bob_id" ->
           [id |-> "bob_id", name |-> "bob", domain_id |-> "default",
            password |-> None]
      [] u = "carol_id" ->
           [id |-> "carol_id", name |-> "carol", domain_id |-> "other",
            password |-> "not_a_string"]
      [] u = "dave_id" ->
           [id |-> "dave_id", name |-> "dave", domain_id |-> "default"]
      [] u = "erin_id" ->
           [id |-> "erin_id", name |-> "erin", domain_id |-> "default",
            password |-> Hash("p1")]]

\* Entries of the LDAP directory, keyed by user name (the id attribute).
LdapUsers ==
  [n \in {"bob", "carol", "dave", "erin", "frank"} |->
    [id |-> n, name |-> n, domain_id |-> "default",
     password |-> IF n = "erin" THEN "p2" ELSE "p1"]]

\* The user ids a caller may pass: the SQL ids, an LDAP-only id, an unknown id.
UserIds == DOMAIN SqlUsers \cup {"frank", "nobody"}

\* The names a caller may look up: in SQL only, in both stores (carol in the
\* SQL domain "other"), in LDAP only, in neither.
UserNames == {"alice", "carol", "frank", "nobody"}

\* The users of the concurrent scenario: one who authenticates against SQL
\* and one who authenticates against LDAP, with their password.
RaceUserIds == {"alice_id", "bob_id"}

RacePasswords == {"p1"}

\* The order in which the SQL backend lists its rows.
SqlOrder == <<"alice_id", "bob_id", "carol_id", "dave_id", "erin_id">>

\* The filter hints of list_users: none, or a domain.
Hints == {None} \cup Domains

(***************************************************************************)
(* Collaborators, at their call sites.                                     *)
(***************************************************************************)
\* utils.check_password(password, user_ref.password): "KeyError" when the row
\* has no password, "TypeError" when the stored material is not a string,
\* otherwise whether the hash of the password is the stored one.
check_password(password, row) ==
  IF "password" \notin DOMAIN row THEN "KeyError"
  ELSE IF row.password = None THEN "False"
  ELSE IF row.password = "not_a_string" THEN "TypeError"
  ELSE IF row.password = Hash(password) THEN "True"
  ELSE "False"

\* self.user._id_to_dn(user_name) and the bind of get_connection: the
\* directory accepts the bind when it holds the name with that password.
LdapAccepts(name, password) ==
  /\ name \in DOMAIN LdapUsers
  /\ LdapUsers[name].password = password

\* What get_connection can do: return a bound connection, raise because the
\* directory rejects the credentials, raise because the directory cannot be
\* reached, or return a handle that is falsy.
BindOutcomes(name, password) ==
  (IF LdapAccepts(name, password) THEN {"bound"} ELSE {"rejected"})
    \cup {"server_down", "falsy"}

\* user_ref.to_dict(): the row as a dict, password included when it has one.
to_dict(row) == row

\* filter_user that hands the dict back as it is.
filter_user_Keeps(d) == d

\* base.filter_user(user_ref): the dict without its password.
filter_user(d) == [k \in DOMAIN d \ {"password"} |-> d[k]]

\* The message of every AssertionError that authenticate raises.
InvalidMsg == "Invalid user / password"

\* The collaborator calls a method can make; "bound" marks a get_connection
\* that handed back a bound connection.
Events ==
  {"sql_get_user", "check_password", "get_connection", "bound", "unbind_s",
   "sql_get_user_by_name", "ldap_get_by_name", "sql_list_users"}

\* The cap of the counter of reads since the last directory success.
MaxReads == 3

(***************************************************************************)
(* State.                                                                  *)
(***************************************************************************)
VARIABLES
  domain_aware,  \* self.domain_aware of the one Identity instance
  pc,            \* per caller: where its call in flight stands, or "idle"
  frame,         \* per caller: arguments and locals of its call in flight
  log,           \* per caller: collaborator calls its call in flight has made
  sessions,      \* number of directory connections bound and not yet unbound
  serial,        \* whether the callers take turns (Spec) or overlap (ConcSpec)
  done,          \* serial use: the call that completed last, until the next begins
  reads,         \* serial use: line-90 reads since line 75 last ran, capped
  track,         \* concurrent use, per caller: how it authenticated, then what it read
  stolen         \* concurrent use, per caller: another caller ran line 92
                 \* between its line 75 and its own read

vars == <<domain_aware, pc, frame, log, sessions, serial, done, reads, track, stolen>>

\* Arguments (a: user_id or user_name, b: password or domain_id or hints),
\* domain_aware at entry, the locals user_ref (a SQL user id) and conn of
\* authenticate with its exception in flight and the path it has taken, and
\* the local domain_aware of is_domain_aware.
EmptyFrame ==
  [a |-> "", b |-> "", entry |-> TRUE, user_ref |-> None, conn |-> None,
   failed |-> FALSE, how |-> "", local |-> TRUE]

Returned(op, val) ==
  [op |-> op, kind |-> "return", exc |-> "", msg |-> "", val |-> val, bool |-> TRUE]

ReturnedBool(op, b) ==
  [op |-> op, kind |-> "return", exc |-> "", msg |-> "", val |-> <<>>, bool |-> b]

Raised(op, exc, msg) ==
  [op |-> op, kind |-> "raise", exc |-> exc, msg |-> msg, val |-> <<>>, bool |-> TRUE]

\* raise AssertionError('Invalid user / password'), lines 50, 55, 63, 72.
InvalidUserPassword == Raised("authenticate", "AssertionError", InvalidMsg)

NoDone ==
  [caller |-> 0, a |-> "", b |-> "", entry |-> TRUE, how |-> "", log |-> <<>>,
   nth |-> 0,
   ret |-> [op |-> "none", kind |-> "none", exc |-> "", msg |-> "", val |-> <<>>,
            bool |-> TRUE]]

NoTrack == [after |-> "", read |-> ""]

\* __init__, lines 36-39: domain_aware starts True; no call has been made.
Init ==
  /\ domain_aware = TRUE
  /\ pc = [c \in Callers |-> "idle"]
  /\ frame = [c \in Callers |-> EmptyFrame]
  /\ log = [c \in Callers |-> <<>>]
  /\ sessions = 0
  /\ done = NoDone
  /\ reads = MaxReads
  /\ track = [c \in Callers |-> NoTrack]
  /\ stolen = [c \in Callers |-> FALSE]

\* No call is in flight.
Quiet == \A c \in Callers : pc[c] = "idle"

\* Caller c may begin a call: it is idle, and under serial use so is everyone.
MayBegin(c) == pc[c] = "idle" /\ (serial => Quiet)

\* The frame of a call that begins with arguments a and b.
Entered(a, b) ==
  [EmptyFrame EXCEPT !.a = a, !.b = b, !.entry = IF serial THEN domain_aware ELSE TRUE]

\* The call of caller c goes on to label l with frame f, having logged lg.
Goto(c, l, f, lg) ==
  /\ pc' = [pc EXCEPT ![c] = l]
  /\ frame' = [frame EXCEPT ![c] = f]
  /\ log' = [log EXCEPT ![c] = lg]
  /\ done' = NoDone

\* The call of caller c, with final frame f and log lg, returns or raises r.
Leave(c, f, r, lg) ==
  /\ pc' = [pc EXCEPT ![c] = "idle"]
  /\ frame' = [frame EXCEPT ![c] = EmptyFrame]
  /\ log' = [log EXCEPT ![c] = <<>>]
  /\ done' = IF serial
               THEN [caller |-> c, a |-> f.a, b |-> f.b, entry |-> f.entry,
                     how |-> f.how, log |-> lg, nth |-> reads, ret |-> r]
               ELSE NoDone

\* Concurrent use: what is remembered of caller c's call once it has ended.
Track(c, after, read) ==
  track' = IF serial THEN track
           ELSE [track EXCEPT ![c] = [after |-> after, read |-> read]]

\* Caller c begins a call that is not a read of the flag.
Forget(c) ==
  /\ track' = [track EXCEPT ![c] = NoTrack]
  /\ stolen' = [stolen EXCEPT ![c] = FALSE]

\* not password (line 49): None and the empty string are falsy.
Falsy(password) == password \in {None, ""}

\* The test of line 77 as "conn is not None".
Truthy_NotNone(conn) == conn # None

\* if conn (line 77): only a live connection object is truthy.
Truthy(conn) == conn = "conn"

(***************************************************************************)
(* authenticate, lines 42-81.                                              *)
(***************************************************************************)
\* AuthBegin without the check of line 49.
AuthBegin_NoCheck(c, user_id, password) ==
  /\ MayBegin(c)
  /\ Goto(c, "a_lookup", Entered(user_id, password), <<>>)
  /\ Forget(c)
  /\ UNCHANGED <<domain_aware, sessions, serial, reads>>

\* Lines 42-50: entry and the empty-password check.
AuthBegin(c, user_id, password) ==
  /\ MayBegin(c)
  /\ LET f == Entered(user_id, password)
     IN  IF Falsy(password)
           THEN Leave(c, [f EXCEPT !.how = "empty_password"], InvalidUserPassword, <<>>)
           ELSE Goto(c, "a_lookup", f, <<>>)
  /\ Forget(c)
  /\ UNCHANGED <<domain_aware, sessions, serial, reads>>

\* AuthLookup with its own message for the unknown user.
AuthLookup_NamesStage(c) ==
  /\ pc[c] = "a_lookup"
  /\ LET f == frame[c]
         lg == Append(log[c], "sql_get_user")
     IN  \E answer \in {"answers", "connection_error"} :
           IF answer = "connection_error"
             THEN Leave(c, [f EXCEPT !.how = "lookup_error"],
                        Raised("authenticate", "DBConnectionError", ""), lg)
           ELSE IF f.a \in DOMAIN SqlUsers
             THEN Goto(c, "a_check", [f EXCEPT !.user_ref = f.a], lg)
           ELSE Leave(c, [f EXCEPT !.how = "user_not_found"],
                      Raised("authenticate", "AssertionError", "User not found"), lg)
  /\ UNCHANGED <<domain_aware, sessions, serial, reads, track, stolen>>

\* Lines 51-55: self._get_user(session, user_id) in a read session (lines
\* 95-98: the SQL backend's lookup, nothing else).  UserNotFound becomes the
\* AssertionError; any other exception of the SQL layer is not caught.
AuthLookup(c) ==
  /\ pc[c] = "a_lookup"
  /\ LET f == frame[c]
         lg == Append(log[c], "sql_get_user")
     IN  \E answer \in {"answers", "connection_error"} :
           IF answer = "connection_error"
             THEN Leave(c, [f EXCEPT !.how = "lookup_error"],
                        Raised("authenticate", "DBConnectionError", ""), lg)
           ELSE IF f.a \in DOMAIN SqlUsers
             THEN Goto(c, "a_check", [f EXCEPT !.user_ref = f.a], lg)
           ELSE Leave(c, [f EXCEPT !.how = "user_not_found"], InvalidUserPassword, lg)
  /\ UNCHANGED <<domain_aware, sessions, serial, reads, track, stolen>>

\* AuthCheck with TypeError caught by the clause of line 64 as well.
AuthCheck_TypeErrorFallsBack(c) ==
  /\ pc[c] = "a_check"
  /\ LET f == frame[c]
         lg == Append(log[c], "check_password")
         row == SqlUsers[f.user_ref]
         checked == check_password(f.b, row)
     IN  CASE checked = "True" ->
                /\ Leave(c, [f EXCEPT !.how = "sql"],
                         Returned("authenticate", <<filter_user(to_dict(row))>>), lg)
                /\ Track(c, "sql", "")
           [] OTHER ->
                /\ Goto(c, "a_bind", f, lg)
                /\ UNCHANGED track
  /\ UNCHANGED <<domain_aware, sessions, serial, reads, stolen>>

\* AuthCheck that goes on to the bind after a match as well.
AuthCheck_BindAfterMatch(c) ==
  /\ pc[c] = "a_check"
  /\ LET f == frame[c]
         lg == Append(log[c], "check_password")
         row == SqlUsers[f.user_ref]
         checked == check_password(f.b, row)
     IN  CASE checked = "TypeError" ->
                /\ Leave(c, [f EXCEPT !.how = "type_error"], InvalidUserPassword, lg)
                /\ UNCHANGED track
           [] OTHER ->
                /\ Goto(c, "a_bind", f, lg)
                /\ UNCHANGED track
  /\ UNCHANGED <<domain_aware, sessions, serial, reads, stolen>>

\* AuthCheck that takes a password the SQL hash rejects as final: only a
\* user without a password goes on to the bind.
AuthCheck_MismatchFails(c) ==
  /\ pc[c] = "a_check"
  /\ LET f == frame[c]
         lg == Append(log[c], "check_password")
         row == SqlUsers[f.user_ref]
         checked == check_password(f.b, row)
     IN  CASE checked = "True" ->
                /\ Leave(c, [f EXCEPT !.how = "sql"],
                         Returned("authenticate", <<filter_user(to_dict(row))>>), lg)
                /\ Track(c, "sql", "")
           [] checked = "TypeError" \/ (checked = "False" /\ row.password # None) ->
                /\ Leave(c, [f EXCEPT !.how = "type_error"], InvalidUserPassword, lg)
                /\ UNCHANGED track
           [] OTHER ->
                /\ Goto(c, "a_bind", f, lg)
                /\ UNCHANGED track
  /\ UNCHANGED <<domain_aware, sessions, serial, reads, stolen>>

\* AuthCheck whose SQL branch (line 80) sets self.domain_aware = True.
AuthCheck_ResetsFlag(c) ==
  /\ pc[c] = "a_check"
  /\ LET f == frame[c]
         lg == Append(log[c], "check_password")
         row == SqlUsers[f.user_ref]
         checked == check_password(f.b, row)
     IN  CASE checked = "True" ->
                /\ Leave(c, [f EXCEPT !.how = "sql"],
                         Returned("authenticate", <<filter_user(to_dict(row))>>), lg)
                /\ Track(c, "sql", "")
                /\ domain_aware' = TRUE
           [] checked = "TypeError" ->
                /\ Leave(c, [f EXCEPT !.how = "type_error"], InvalidUserPassword, lg)
                /\ UNCHANGED <<track, domain_aware>>
           [] OTHER ->
                /\ Goto(c, "a_bind", f, lg)
                /\ UNCHANGED <<track, domain_aware>>
  /\ UNCHANGED <<sessions, serial, reads, stolen>>

\* Lines 59-64 and 79-81: the password check against the SQL row.  A match
\* returns the filtered row; TypeError raises the AssertionError; KeyError
\* and a failed assert go on to the LDAP bind.
AuthCheck(c) ==
  /\ pc[c] = "a_check"
  /\ LET f == frame[c]
         lg == Append(log[c], "check_password")
         row == SqlUsers[f.user_ref]
         checked == check_password(f.b, row)
     IN  CASE checked = "True" ->
                /\ Leave(c, [f EXCEPT !.how = "sql"],
                         Returned("authenticate", <<filter_user(to_dict(row))>>), lg)
                /\ Track(c, "sql", "")
           [] checked = "TypeError" ->
                /\ Leave(c, [f EXCEPT !.how = "type_error"], InvalidUserPassword, lg)
                /\ UNCHANGED track
           [] OTHER ->
                /\ Goto(c, "a_bind", f, lg)
                /\ UNCHANGED track
  /\ UNCHANGED <<domain_aware, sessions, serial, reads, stolen>>

\* AuthBind whose except clause catches the rejected bind only: an
\* unreachable directory raises its own error out of authenticate.
AuthBind_CatchesRejectionOnly(c) ==
  /\ pc[c] = "a_bind"
  /\ LET f == frame[c]
         lg == Append(log[c], "get_connection")
         user_name == SqlUsers[f.user_ref].name
     IN  \E outcome \in BindOutcomes(user_name, f.b) :
           CASE outcome = "bound" ->
                  /\ Goto(c, "a_else", [f EXCEPT !.conn = "conn"], Append(lg, "bound"))
                  /\ sessions' = sessions + 1
             [] outcome = "falsy" ->
                  /\ Goto(c, "a_finally",
                          [f EXCEPT !.conn = "falsy", !.failed = TRUE, !.how = "falsy_handle"],
                          lg)
                  /\ sessions' = sessions
             [] outcome = "server_down" ->
                  /\ Leave(c, [f EXCEPT !.how = "server_down"],
                           Raised("authenticate", "LDAPError", ""), lg)
                  /\ sessions' = sessions
             [] OTHER ->
                  /\ Goto(c, "a_finally", [f EXCEPT !.failed = TRUE, !.how = outcome], lg)
                  /\ sessions' = sessions
  /\ UNCHANGED <<domain_aware, serial, reads, track, stolen>>

\* AuthBind with the assignment of line 75 moved into the try block, before
\* get_connection: the attribute is set whether or not the bind succeeds.
AuthBind_WritesEarly(c) ==
  /\ pc[c] = "a_bind"
  /\ domain_aware' = FALSE
  /\ LET f == frame[c]
         lg == Append(log[c], "get_connection")
         user_name == SqlUsers[f.user_ref].name
     IN  \E outcome \in BindOutcomes(user_name, f.b) :
           CASE outcome = "bound" ->
                  /\ Goto(c, "a_else", [f EXCEPT !.conn = "conn"], Append(lg, "bound"))
                  /\ sessions' = sessions + 1
             [] outcome = "falsy" ->
                  /\ Goto(c, "a_finally",
                          [f EXCEPT !.conn = "falsy", !.failed = TRUE, !.how = "falsy_handle"],
                          lg)
                  /\ sessions' = sessions
             [] OTHER ->
                  /\ Goto(c, "a_finally", [f EXCEPT !.failed = TRUE, !.how = outcome], lg)
                  /\ sessions' = sessions
  /\ UNCHANGED <<serial, reads, track, stolen>>

\* Lines 65-72: get_connection binds as the user's name with the password.
\* Any exception, and a falsy connection (assert conn), raise the
\* AssertionError, which waits for the finally clause.
AuthBind(c) ==
  /\ pc[c] = "a_bind"
  /\ LET f == frame[c]
         lg == Append(log[c], "get_connection")
         user_name == SqlUsers[f.user_ref].name
     IN  \E outcome \in BindOutcomes(user_name, f.b) :
           CASE outcome = "bound" ->
                  /\ Goto(c, "a_else", [f EXCEPT !.conn = "conn"], Append(lg, "bound"))
                  /\ sessions' = sessions + 1
             [] outcome = "falsy" ->
                  /\ Goto(c, "a_finally",
                          [f EXCEPT !.conn = "falsy", !.failed = TRUE, !.how = "falsy_handle"],
                          lg)
                  /\ sessions' = sessions
             [] OTHER ->
                  /\ Goto(c, "a_finally", [f EXCEPT !.failed = TRUE, !.how = outcome], lg)
                  /\ sessions' = sessions
  /\ UNCHANGED <<domain_aware, serial, reads, track, stolen>>

\* AuthElse without the assignment of line 75.
AuthElse_NoWrite(c) ==
  /\ pc[c] = "a_else"
  /\ Goto(c, "a_finally", [frame[c] EXCEPT !.how = "ldap"], log[c])
  /\ reads' = IF serial THEN 0 ELSE reads
  /\ stolen' = [stolen EXCEPT ![c] = FALSE]
  /\ UNCHANGED <<domain_aware, sessions, serial, track>>

\* Lines 73-75: the bind succeeded; self.domain_aware = False.
AuthElse(c) ==
  /\ pc[c] = "a_else"
  /\ domain_aware' = FALSE
  /\ Goto(c, "a_finally", [frame[c] EXCEPT !.how = "ldap"], log[c])
  /\ reads' = IF serial THEN 0 ELSE reads
  /\ stolen' = [stolen EXCEPT ![c] = FALSE]
  /\ UNCHANGED <<sessions, serial, track>>

\* AuthFinally without the unbind_s of lines 77-78.
AuthFinally_NoUnbind(c) ==
  /\ pc[c] = "a_finally"
  /\ LET f == frame[c]
     IN  /\ sessions' = sessions
         /\ IF f.failed
              THEN /\ Leave(c, f, InvalidUserPassword, log[c])
                   /\ UNCHANGED track
              ELSE /\ Leave(c, f, Returned("authenticate",
                                           <<filter_user(to_dict(SqlUsers[f.user_ref]))>>),
                            log[c])
                   /\ Track(c, f.how, "")
  /\ UNCHANGED <<domain_aware, serial, reads, stolen>>

\* AuthFinally that returns the directory's entry of the user's name after a
\* bind, not the SQL row.
AuthFinally_ReturnsLdapEntry(c) ==
  /\ pc[c] = "a_finally"
  /\ LET f == frame[c]
         unbind == Truthy(f.conn)
         lg == IF unbind THEN Append(log[c], "unbind_s") ELSE log[c]
     IN  /\ sessions' = IF unbind THEN sessions - 1 ELSE sessions
         /\ IF f.failed
              THEN /\ Leave(c, f, InvalidUserPassword, lg)
                   /\ UNCHANGED track
              ELSE /\ Leave(c, f, Returned("authenticate",
                                           <<filter_user(LdapUsers[SqlUsers[f.user_ref].name])>>),
                            lg)
                   /\ Track(c, f.how, "")
  /\ UNCHANGED <<domain_aware, serial, reads, stolen>>

\* Lines 76-78, then the pending AssertionError or the return of line 81.
AuthFinally(c) ==
  /\ pc[c] = "a_finally"
  /\ LET f == frame[c]
         unbind == Truthy(f.conn)
         lg == IF unbind THEN Append(log[c], "unbind_s") ELSE log[c]
     IN  /\ sessions' = IF unbind THEN sessions - 1 ELSE sessions
         /\ IF f.failed
              THEN /\ Leave(c, f, InvalidUserPassword, lg)
                   /\ UNCHANGED track
              ELSE /\ Leave(c, f, Returned("authenticate",
                                           <<filter_user(to_dict(SqlUsers[f.user_ref]))>>),
                            lg)
                   /\ Track(c, f.how, "")
  /\ UNCHANGED <<domain_aware, serial, reads, stolen>>

(***************************************************************************)
(* is_domain_aware, lines 83-93.                                           *)
(***************************************************************************)
\* Line 90: domain_aware = self.domain_aware.
IdaRead(c) ==
  /\ MayBegin(c)
  /\ Goto(c, "d_test", [Entered("", "") EXCEPT !.local = domain_aware], <<>>)
  /\ reads' = IF serial /\ reads < MaxReads THEN reads + 1 ELSE reads
  /\ IF track[c].read = ""
       THEN UNCHANGED <<track, stolen>>
       ELSE Forget(c)
  /\ UNCHANGED <<domain_aware, sessions, serial>>

\* What a caller has read, as remembered under concurrent use.
Read(b) == IF b THEN "True" ELSE "False"

\* Line 91, and line 93 when the attribute is True.
IdaTest(c) ==
  /\ pc[c] = "d_test"
  /\ IF ~domain_aware
       THEN /\ Goto(c, "d_reset", frame[c], log[c])
            /\ UNCHANGED track
       ELSE /\ Leave(c, frame[c], ReturnedBool("is_domain_aware", frame[c].local), log[c])
            /\ Track(c, track[c].after, Read(frame[c].local))
  /\ UNCHANGED <<domain_aware, sessions, serial, reads, stolen>>

\* IdaReset with line 92 left out: the attribute is read and never reset.
IdaReset_NoReset(c) ==
  /\ pc[c] = "d_reset"
  /\ Leave(c, frame[c], ReturnedBool("is_domain_aware", frame[c].local), log[c])
  /\ Track(c, track[c].after, Read(frame[c].local))
  /\ UNCHANGED <<domain_aware, sessions, serial, reads, stolen>>

\* Caller d has run line 75 and has not begun its read since.
Unread(d) ==
  \/ frame[d].how = "ldap"
  \/ pc[d] = "idle" /\ track[d].after = "ldap" /\ track[d].read = ""

\* Lines 92-93: self.domain_aware = True; return domain_aware.
IdaReset(c) ==
  /\ pc[c] = "d_reset"
  /\ domain_aware' = TRUE
  /\ Leave(c, frame[c], ReturnedBool("is_domain_aware", frame[c].local), log[c])
  /\ Track(c, track[c].after, Read(frame[c].local))
  /\ stolen' = [d \in Callers |->
                  IF ~serial /\ d # c /\ Unread(d) THEN TRUE ELSE stolen[d]]
  /\ UNCHANGED <<sessions, serial, reads>>

(***************************************************************************)
(* The user resolver, lines 95-133.  None of it touches domain_aware, so   *)
(* each method is one step.                                                *)
(***************************************************************************)
\* super().get_user_by_name(user_name, domain_id), line 124: the ids of the
\* SQL rows with that name in that domain.
SqlByName(user_name, domain_id) ==
  {u \in DOMAIN SqlUsers :
     SqlUsers[u].name = user_name /\ SqlUsers[u].domain_id = domain_id}

\* super().list_users(hints), line 132: the filtered dicts of the SQL rows
\* that pass the hints, in the backend's order.
SqlListUsers(hints) ==
  LET Passes(u) == hints = None \/ SqlUsers[u].domain_id = hints
      ids == SelectSeq(SqlOrder, Passes)
  IN  [i \in 1..Len(ids) |-> filter_user(to_dict(SqlUsers[ids[i]]))]

\* GetUser with the LDAP lookup of lines 101-107 switched on: an id that SQL
\* does not have is looked up in the directory.
GetUser_LdapFallback(c, user_id) ==
  /\ MayBegin(c)
  /\ LET f == Entered(user_id, "")
         lg == <<"sql_get_user">>
     IN  \E answer \in {"answers", "connection_error"} :
           IF answer = "connection_error"
             THEN Leave(c, [f EXCEPT !.how = "lookup_error"],
                        Raised("get_user", "DBConnectionError", ""), lg)
           ELSE IF user_id \in DOMAIN SqlUsers
             THEN Leave(c, [f EXCEPT !.how = "sql"],
                        Returned("get_user", <<filter_user(to_dict(SqlUsers[user_id]))>>),
                        lg)
           ELSE IF user_id \in DOMAIN LdapUsers
             THEN Leave(c, [f EXCEPT !.how = "ldap"],
                        Returned("get_user", <<filter_user(LdapUsers[user_id])>>),
                        Append(lg, "ldap_get"))
           ELSE Leave(c, [f EXCEPT !.how = "not_found"],
                      Raised("get_user", "UserNotFound", user_id),
                      Append(lg, "ldap_get"))
  /\ Forget(c)
  /\ UNCHANGED <<domain_aware, sessions, serial, reads>>

\* Lines 109-118 (and 95-98): the SQL row by id, as a filtered dict.
GetUser(c, user_id) ==
  /\ MayBegin(c)
  /\ LET f == Entered(user_id, "")
         lg == <<"sql_get_user">>
     IN  \E answer \in {"answers", "connection_error"} :
           IF answer = "connection_error"
             THEN Leave(c, [f EXCEPT !.how = "lookup_error"],
                        Raised("get_user", "DBConnectionError", ""), lg)
           ELSE IF user_id \in DOMAIN SqlUsers
             THEN Leave(c, [f EXCEPT !.how = "sql"],
                        Returned("get_user", <<filter_user(to_dict(SqlUsers[user_id]))>>),
                        lg)
           ELSE Leave(c, [f EXCEPT !.how = "not_found"],
                      Raised("get_user", "UserNotFound", user_id), lg)
  /\ Forget(c)
  /\ UNCHANGED <<domain_aware, sessions, serial, reads>>

\* GetUserByName without the except clause of lines 125-127.
GetUserByName_NoFallback(c, user_name, domain_id) ==
  /\ MayBegin(c)
  /\ LET f == Entered(user_name, domain_id)
         lg == <<"sql_get_user_by_name">>
         found == SqlByName(user_name, domain_id)
     IN  \E answer \in {"answers", "connection_error"} :
           IF answer = "connection_error"
             THEN Leave(c, [f EXCEPT !.how = "lookup_error"],
                        Raised("get_user_by_name", "DBConnectionError", ""), lg)
           ELSE IF found # {}
             THEN Leave(c, [f EXCEPT !.how = "sql"],
                        Returned("get_user_by_name",
                                 <<filter_user(to_dict(SqlUsers[CHOOSE u \in found : TRUE]))>>),
                        lg)
           ELSE Leave(c, [f EXCEPT !.how = "not_found"],
                      Raised("get_user_by_name", "UserNotFound", user_name), lg)
  /\ Forget(c)
  /\ UNCHANGED <<domain_aware, sessions, serial, reads>>

\* Lines 120-129: the SQL backend's answer by name and domain; when it
\* raises UserNotFound, the filtered LDAP entry of that name.
GetUserByName(c, user_name, domain_id) ==
  /\ MayBegin(c)
  /\ LET f == Entered(user_name, domain_id)
         lg == <<"sql_get_user_by_name">>
         found == SqlByName(user_name, domain_id)
     IN  \E answer \in {"answers", "connection_error"},
            ldap_answer \in {"answers", "server_down"} :
           IF answer = "connection_error"
             THEN Leave(c, [f EXCEPT !.how = "lookup_error"],
                        Raised("get_user_by_name", "DBConnectionError", ""), lg)
           ELSE IF found # {}
             THEN Leave(c, [f EXCEPT !.how = "sql"],
                        Returned("get_user_by_name",
                                 <<filter_user(to_dict(SqlUsers[CHOOSE u \in found : TRUE]))>>),
                        lg)
           ELSE IF ldap_answer = "server_down"
             THEN Leave(c, [f EXCEPT !.how = "ldap_error"],
                        Raised("get_user_by_name", "LDAPError", ""),
                        Append(lg, "ldap_get_by_name"))
           ELSE IF user_name \in DOMAIN LdapUsers
             THEN Leave(c, [f EXCEPT !.how = "ldap"],
                        Returned("get_user_by_name", <<filter_user(LdapUsers[user_name])>>),
                        Append(lg, "ldap_get_by_name"))
           ELSE Leave(c, [f EXCEPT !.how = "not_found"],
                      Raised("get_user_by_name", "UserNotFound", user_name),
                      Append(lg, "ldap_get_by_name"))
  /\ Forget(c)
  /\ UNCHANGED <<domain_aware, sessions, serial, reads>>

\* ListUsers with lines 134-135 switched on: the LDAP entries are appended.
ListUsers_WithLdap(c, hints) ==
  /\ MayBegin(c)
  /\ LET f == Entered("", hints)
         lg == <<"sql_list_users">>
         ldap_users == <<filter_user(LdapUsers["bob"]), filter_user(LdapUsers["frank"])>>
     IN  \E answer \in {"answers", "connection_error"} :
           IF answer = "connection_error"
             THEN Leave(c, [f EXCEPT !.how = "lookup_error"],
                        Raised("list_users", "DBConnectionError", ""), lg)
             ELSE Leave(c, [f EXCEPT !.how = "sql"],
                        Returned("list_users", SqlListUsers(hints) \o ldap_users),
                        Append(lg, "ldap_get_all_filtered"))
  /\ Forget(c)
  /\ UNCHANGED <<domain_aware, sessions, serial, reads>>

\* Lines 131-133: the SQL backend's listing, and nothing of LDAP.
ListUsers(c, hints) ==
  /\ MayBegin(c)
  /\ LET f == Entered("", hints)
         lg == <<"sql_list_users">>
     IN  \E answer \in {"answers", "connection_error"} :
           IF answer = "connection_error"
             THEN Leave(c, [f EXCEPT !.how = "lookup_error"],
                        Raised("list_users", "DBConnectionError", ""), lg)
             ELSE Leave(c, [f EXCEPT !.how = "sql"],
                        Returned("list_users", SqlListUsers(hints)), lg)
  /\ Forget(c)
  /\ UNCHANGED <<domain_aware, sessions, serial, reads>>

(***************************************************************************)
(* Specifications.                                                         *)
(***************************************************************************)
\* The users and passwords that callers authenticate with.
AuthUserIds == IF serial THEN UserIds ELSE RaceUserIds

AuthPasswords == IF serial THEN Passwords ELSE RacePasswords

Next ==
  \/ \E c \in Callers, u \in AuthUserIds, p \in AuthPasswords : AuthBegin(c, u, p)
  \/ \E c \in Callers : AuthLookup(c)
  \/ \E c \in Callers : AuthCheck(c)
  \/ \E c \in Callers : AuthBind(c)
  \/ \E c \in Callers : AuthElse(c)
  \/ \E c \in Callers : AuthFinally(c)
  \/ \E c \in Callers : IdaRead(c)
  \/ \E c \in Callers : IdaTest(c)
  \/ \E c \in Callers : IdaReset(c)
  \/ \E c \in Callers, u \in UserIds : GetUser(c, u)
  \/ \E c \in Callers, n \in UserNames, d \in Domains : GetUserByName(c, n, d)
  \/ \E c \in Callers, h \in Hints : ListUsers(c, h)

\* Sequential use: a call begins only when no call is in flight.
SerialInit == Init /\ serial = TRUE

Spec == SerialInit /\ [][Next]_vars

\* Concurrent use: the calls of different callers overlap.
ConcInit == Init /\ serial = FALSE

ConcSpec == ConcInit /\ [][Next]_vars

(***************************************************************************)
(* What the stores decide about a user id and a password.                  *)
(***************************************************************************)
\* The SQL password check accepts the password for the user id.
SqlAccepts(user_id, password) ==
  /\ user_id \in DOMAIN SqlUsers
  /\ check_password(password, SqlUsers[user_id]) = "True"

\* The directory accepts the password for the name of the SQL user.
BindAccepts(user_id, password) ==
  /\ user_id \in DOMAIN SqlUsers
  /\ LdapAccepts(SqlUsers[user_id].name, password)

\* The SQL user has no password material.
NoMaterial(user_id) ==
  /\ user_id \in DOMAIN SqlUsers
  /\ check_password("p1", SqlUsers[user_id]) = "KeyError"
       \/ SqlUsers[user_id].password = None

\* How often event e occurs in the log lg.
Count(lg, e) == Cardinality({i \in DOMAIN lg : lg[i] = e})

\* The last completed call was an authenticate.
DoneAuth == done.ret.op = "authenticate"

\* The paths of authenticate on which a collaborator broke down.
LookupFault == done.how = "lookup_error"

BindFault == done.how \in {"server_down", "falsy_handle"}

\* The SQL check of the last authenticate ended as r.
DoneChecked(r) ==
  /\ DoneAuth /\ ~Falsy(done.b) /\ ~LookupFault
  /\ done.a \in DOMAIN SqlUsers
  /\ check_password(done.b, SqlUsers[done.a]) = r

\* The last authenticate went to the bind and succeeded exactly when it bound.
DoneFellThrough ==
  /\ Count(done.log, "get_connection") = 1
  /\ done.ret.kind = "return" <=> Count(done.log, "bound") = 1
  /\ done.ret.kind = "return" => done.how = "ldap"
  /\ done.ret.kind # "return" => done.ret = InvalidUserPassword

\* The last authenticate returned one user dict without a password.
DoneSanitized ==
  /\ done.ret.kind = "return"
  /\ Len(done.ret.val) = 1
  /\ "password" \notin DOMAIN done.ret.val[1]

\* In log lg the bind comes third, after the lookup and the check.
BindComesLast(lg) ==
  \A i \in DOMAIN lg :
    lg[i] = "get_connection"
      => /\ i = 3
         /\ lg[1] = "sql_get_user"
         /\ lg[2] = "check_password"

(***************************************************************************)
(* C1: whenever authenticate succeeds through the SQL password check,      *)
(* domain_aware is True when the call returns (whatever came before).      *)
(* The code never resets the attribute on that path.                       *)
(***************************************************************************)
C1_SqlSuccessLeavesFlagTrue ==
  (DoneAuth /\ done.ret.kind = "return" /\ done.how = "sql") => domain_aware = TRUE

(***************************************************************************)
(* C2: one-shot reset.  A user without SQL password material whose bind    *)
(* the directory accepts authenticates through LDAP, which leaves          *)
(* domain_aware False; is_domain_aware returns False on the first read     *)
(* after a directory success and True on every other read.                 *)
(***************************************************************************)
C2_OneShotReset ==
  /\ (/\ DoneAuth /\ ~Falsy(done.b) /\ NoMaterial(done.a)
      /\ BindAccepts(done.a, done.b) /\ ~LookupFault /\ ~BindFault)
       => /\ done.ret.kind = "return"
          /\ done.how = "ldap"
          /\ domain_aware = FALSE
  /\ done.ret.op = "is_domain_aware"
       => /\ done.ret.kind = "return"
          /\ done.ret.bool = FALSE <=> done.nth = 1
          /\ domain_aware = TRUE

\* The second read in a row after a directory success has returned True.
C2_SecondReadTrue ==
  /\ done.ret.op = "is_domain_aware"
  /\ done.nth = 2
  /\ done.ret.bool = TRUE

(***************************************************************************)
(* C3: uniform failure.  A password that neither the SQL check nor the     *)
(* bind accepts, an unknown user, an empty password and a failed bind all  *)
(* raise the same AssertionError with the same message.                    *)
(***************************************************************************)
C3_UniformFailure ==
  /\ (DoneAuth /\ ~LookupFault
        /\ ~SqlAccepts(done.a, done.b) /\ ~BindAccepts(done.a, done.b))
       => done.ret = InvalidUserPassword
  /\ (DoneAuth /\ done.how \in {"empty_password", "user_not_found", "type_error",
                                "rejected", "server_down", "falsy_handle"})
       => done.ret = InvalidUserPassword

\* A known user with a wrong password has been turned away by the bind.
C3_WrongPasswordRejected ==
  /\ DoneAuth
  /\ done.a = "alice_id" /\ done.b = "p2"
  /\ done.how = "rejected"
  /\ done.ret = InvalidUserPassword

(***************************************************************************)
(* C4: every directory connection that authenticate was handed is unbound  *)
(* exactly once before the call ends: none is open between calls, and      *)
(* unbind_s is never called more often than a connection was bound.        *)
(***************************************************************************)
C4_SessionReleasedOnce ==
  /\ Quiet => sessions = 0
  /\ sessions \in {0, 1}
  /\ \A c \in Callers :
       /\ Count(log[c], "unbind_s") <= Count(log[c], "bound")
       /\ Count(log[c], "bound") <= 1
  /\ DoneAuth => Count(done.log, "unbind_s") = Count(done.log, "bound")

\* An authenticate that bound a connection has ended with it unbound.
C4_BoundAndReleased ==
  /\ DoneAuth
  /\ Count(done.log, "bound") = 1
  /\ Count(done.log, "unbind_s") = 1
  /\ sessions = 0

(***************************************************************************)
(* C5: an empty or missing password raises the AssertionError before any   *)
(* store is consulted, and leaves domain_aware as it was.                  *)
(***************************************************************************)
C5_EmptyPasswordShortCircuit ==
  (DoneAuth /\ Falsy(done.b))
    => /\ done.ret = InvalidUserPassword
       /\ done.log = <<>>
       /\ sessions = 0
       /\ domain_aware = done.entry

\* An empty password for a known user has been refused while the flag was False.
C5_EmptyPasswordRefused ==
  /\ DoneAuth
  /\ done.a = "bob_id" /\ done.b = ""
  /\ done.ret = InvalidUserPassword
  /\ done.entry = FALSE

C8_TrueAfterLdapOnlyWhenStolen ==
  \A c \in Callers :
    (track[c].after = "ldap" /\ track[c].read = "True") => stolen[c]

\* One caller read True after its directory success, another read the False
\* after its SQL success.
C8_FlagReadByTheWrongCaller ==
  \E c, d \in Callers :
    /\ c # d
    /\ track[c] = [after |-> "ldap", read |-> "True"]
    /\ track[d] = [after |-> "sql", read |-> "False"]

(***************************************************************************)
(* C9: inside one authenticate the directory is contacted only after the   *)
(* SQL lookup has found the user and the SQL password check has ended      *)
(* without a match; never for an empty password, an unknown user or a      *)
(* matching password.                                                      *)
(***************************************************************************)
C9_StagesOrdered ==
  /\ \A c \in Callers :
       /\ BindComesLast(log[c])
       /\ Count(log[c], "get_connection") = 1
            => /\ ~Falsy(frame[c].b)
               /\ ~SqlAccepts(frame[c].a, frame[c].b)
               /\ frame[c].a \in DOMAIN SqlUsers
  /\ DoneAuth
       => /\ BindComesLast(done.log)
          /\ (Falsy(done.b) \/ done.a \notin DOMAIN SqlUsers \/ SqlAccepts(done.a, done.b))
               => Count(done.log, "get_connection") = 0

\* An authenticate went through lookup, check and bind, in that order.
C9_AllThreeStages ==
  /\ DoneAuth
  /\ done.log = <<"sql_get_user", "check_password", "get_connection">>

(***************************************************************************)
(* C10: get_user_by_name returns the SQL backend's record when it has the  *)
(* name in the domain; when SQL raises UserNotFound it returns the         *)
(* filtered LDAP entry of that name; UserNotFound comes out only when      *)
(* both stores miss.                                                       *)
(***************************************************************************)
C10_GetUserByName ==
  (done.ret.op = "get_user_by_name" /\ done.how \notin {"lookup_error", "ldap_error"})
    => /\ SqlByName(done.a, done.b) # {}
            => /\ done.ret.kind = "return"
               /\ \E u \in SqlByName(done.a, done.b) :
                    done.ret.val = <<filter_user(to_dict(SqlUsers[u]))>>
               /\ done.log = <<"sql_get_user_by_name">>
       /\ (SqlByName(done.a, done.b) = {} /\ done.a \in DOMAIN LdapUsers)
            => /\ done.ret.kind = "return"
               /\ done.ret.val = <<filter_user(LdapUsers[done.a])>>
               /\ done.log = <<"sql_get_user_by_name", "ldap_get_by_name">>
       /\ (SqlByName(done.a, done.b) = {} /\ done.a \notin DOMAIN LdapUsers)
            => done.ret = Raised("get_user_by_name", "UserNotFound", done.a)
       /\ done.ret.kind = "raise"
            => /\ done.ret.exc = "UserNotFound"
               /\ SqlByName(done.a, done.b) = {}
               /\ done.a \notin DOMAIN LdapUsers

\* carol, who is in SQL in another domain, has been answered from LDAP.
C10_AnsweredFromLdap ==
  /\ done.ret.op = "get_user_by_name"
  /\ done.a = "carol" /\ done.b = "default"
  /\ done.ret.kind = "return"
  /\ done.ret.val = <<filter_user(LdapUsers["carol"])>>

(***************************************************************************)
(* C11: get_user asks the SQL backend only.  An id that SQL does not have  *)
(* raises UserNotFound, also when the directory has an entry of that id.   *)
(***************************************************************************)
C11_GetUserSqlOnly ==
  done.ret.op = "get_user"
    => /\ done.log = <<"sql_get_user">>
       /\ (~LookupFault /\ done.a \notin DOMAIN SqlUsers)
            => done.ret = Raised("get_user", "UserNotFound", done.a)
       /\ (~LookupFault /\ done.a \in DOMAIN SqlUsers)
            => done.ret = Returned("get_user", <<filter_user(to_dict(SqlUsers[done.a]))>>)
       /\ done.ret.kind = "return" => done.ret.val[1].id \in DOMAIN SqlUsers

\* frank, whom only the directory knows, has not been found by id.
C11_LdapOnlyIdNotFound ==
  /\ done.ret.op = "get_user"
  /\ done.a = "frank" /\ done.a \in DOMAIN LdapUsers
  /\ done.ret.exc = "UserNotFound"

(***************************************************************************)
(* C12: no user dict that a method returns has a password key, whichever   *)
(* store it came from: authenticate on both paths, get_user,               *)
(* get_user_by_name from SQL and from LDAP, list_users.                    *)
(***************************************************************************)
C12_NoPasswordReturned ==
  done.ret.kind = "return"
    => \A i \in DOMAIN done.ret.val : "password" \notin DOMAIN done.ret.val[i]

\* An LDAP entry that holds a password has been returned without it.
C12_LdapEntryStripped ==
  /\ done.ret.op = "get_user_by_name"
  /\ done.how = "ldap"
  /\ "password" \in DOMAIN LdapUsers[done.a]
  /\ Len(done.ret.val) = 1
  /\ "password" \notin DOMAIN done.ret.val[1]

(***************************************************************************)
(* C13: list_users returns the SQL backend's listing and asks the          *)
(* directory nothing: a user that only the directory knows is never        *)
(* listed.                                                                 *)
(***************************************************************************)
C13_ListUsersSqlOnly ==
  done.ret.op = "list_users"
    => /\ done.log = <<"sql_list_users">>
       /\ ~LookupFault => done.ret = Returned("list_users", SqlListUsers(done.b))
       /\ \A i \in DOMAIN done.ret.val :
            /\ done.ret.val[i].id \in DOMAIN SqlUsers
            /\ done.ret.val[i].name # "frank"

\* All SQL users have been listed, and frank, whom get_user_by_name would
\* return from the directory, is not among them.
C13_ListedWithoutFrank ==
  /\ done.ret.op = "list_users"
  /\ done.b = None
  /\ Len(done.ret.val) = Len(SqlOrder)
  /\ SqlByName("frank", "default") = {} /\ "frank" \in DOMAIN LdapUsers

C15_MismatchThenBind ==
  (/\ DoneChecked("False") /\ ~NoMaterial(done.a)
   /\ BindAccepts(done.a, done.b) /\ ~BindFault)
    => /\ done.ret.kind = "return"
       /\ done.how = "ldap"
       /\ done.log = <<"sql_get_user", "check_password", "get_connection", "bound",
                       "unbind_s">>
       /\ domain_aware = FALSE

\* erin, whose SQL hash is of another password, has got in with her
\* directory password.
C15_ErinByDirectoryPassword ==
  /\ DoneAuth
  /\ done.a = "erin_id" /\ done.b = "p2"
  /\ ~SqlAccepts(done.a, done.b) /\ ~NoMaterial(done.a)
  /\ done.ret.kind = "return"
  /\ domain_aware = FALSE

(***************************************************************************)
(* C16: after a successful bind authenticate returns the filtered SQL row  *)
(* of user_id, not the directory's entry, and domain_aware is False; after *)
(* a bind that failed in any way it raises the AssertionError.             *)
(***************************************************************************)
C16_BindOutcome ==
  DoneAuth
    => /\ Count(done.log, "bound") = 1
            => /\ done.ret = Returned("authenticate",
                                      <<filter_user(to_dict(SqlUsers[done.a]))>>)
               /\ done.ret.val[1].id = done.a
               /\ done.ret.val # <<filter_user(LdapUsers[SqlUsers[done.a].name])>>
               /\ domain_aware = FALSE
       /\ (Count(done.log, "get_connection") = 1 /\ Count(done.log, "bound") = 0)
            => /\ done.ret = InvalidUserPassword
               /\ done.how \in {"rejected", "server_down", "falsy_handle"}

\* bob has authenticated through the bind and got his SQL row back.
C16_SqlRowAfterBind ==
  /\ DoneAuth
  /\ done.a = "bob_id"
  /\ done.how = "ldap"
  /\ done.ret.val = <<filter_user(to_dict(SqlUsers["bob_id"]))>>

(***************************************************************************)
(* C17: under sequential use, outside a running is_domain_aware,           *)
(* domain_aware is False exactly when line 75 has run since the last       *)
(* is_domain_aware (or since __init__); however many directory successes   *)
(* precede a read, only that one read returns False.                       *)
(***************************************************************************)
C17_FalseIffDirectorySuccessSinceRead ==
  /\ (\A c \in Callers : pc[c] \notin {"d_test", "d_reset"})
       => (domain_aware = FALSE <=> reads = 0)
  /\ \A c \in Callers :
       pc[c] \in {"d_test", "d_reset"} => (frame[c].local = FALSE <=> reads = 1)

\* A second directory success in a row, with no read in between.
C17_TwoSuccessesNoRead ==
  /\ DoneAuth
  /\ done.how = "ldap"
  /\ done.entry = FALSE
  /\ domain_aware = FALSE
  /\ reads = 0

(***************************************************************************)
(* C18: when get_connection hands back a falsy handle without raising,     *)
(* authenticate raises the AssertionError, unbind_s is not called and      *)
(* domain_aware is as before; when get_connection raises, unbind_s is not  *)
(* called either.                                                          *)
(***************************************************************************)
C18_NoHandleNoRelease ==
  /\ (DoneAuth /\ done.how = "falsy_handle")
       => /\ done.ret = InvalidUserPassword
          /\ done.log = <<"sql_get_user", "check_password", "get_connection">>
          /\ domain_aware = done.entry
  /\ (DoneAuth /\ done.how \in {"rejected", "server_down"})
       => /\ done.ret = InvalidUserPassword
          /\ Count(done.log, "unbind_s") = 0
  /\ \A c \in Callers : frame[c].conn # "conn" => Count(log[c], "unbind_s") = 0

\* A falsy handle has ended an authenticate whose bind the directory would
\* have accepted.
C18_FalsyHandleRefused ==
  /\ DoneAuth
  /\ done.how = "falsy_handle"
  /\ BindAccepts(done.a, done.b)
  /\ done.ret = InvalidUserPassword

====
